---------------------------- MODULE Spec2Model ----------------------------
(***************************************************************************)
(* A model of kk7ds/ham-shack-glue:                                        *)
(*   flrigproxy.py  RigProxy (one serial->flrig relay thread) and          *)
(*                  RigProxies / WinProxyService (the supervisor)          *)
(*   qsofwdsvc.py   WSJPacket (the datagram decoder) and QSOForwarder      *)
(*                                                                         *)
(* Spec      one RigProxy, its thread, stop() and its two TCP peers        *)
(* FairSpec  Spec with the thread scheduled fairly                         *)
(* SupSpec   RigProxies / WinProxyService: construction, wait, stop loop   *)
(* CodecSpec WSJPacket.parse applied to one datagram                       *)
(* FwdSpec   QSOForwarder: setup(), then run_one() cycle after cycle       *)
(***************************************************************************)
EXTENDS Integers, Sequences, FiniteSets, TLC

(***************************************************************************)
(* Bounds of the model.                                                    *)
(***************************************************************************)
\* bytes each peer writes during one relay session
MaxBytes == 2

\* rigs in the configuration, and proxies (serial devices) of one rig
MaxRigs == 2

MaxProxies == 2

\* bytes cut from the end of a datagram, and bytes by which its last
\* length prefix overstates the string that follows
MaxCut == 2

MaxOver == 1

\* modification times the configuration file can take (1..MaxMtime)
MaxMtime == 2

(***************************************************************************)
(* Program constants.                                                      *)
(***************************************************************************)
\* recv(65536) in _proxy_loop
RecvSize == 65536

VARIABLES
    \* ---- RigProxy fields (flrigproxy.py:16-29) ----
    running,          \* self.running
    flrig_sock,       \* self._flrig_sock: "None" | "unconnected" | "connected"
    rigctlcom_sock,   \* self._rigctlcom_sock: "None" | "connected"
    rigctlcom,        \* self._rigctlcom (Popen handle): "None" | "alive" | "exited"
    \* ---- the relay thread ----
    pc,               \* position of thread_loop
    r,                \* readable set returned by the last select()
    exc,              \* the exception most recently raised inside the try block
    \* ---- operating system / peers ----
    children,         \* number of live rigctlcom processes
    launched,         \* number of Popen calls since the last _reset (or the start)
    ctlLink,          \* TCP connection relay<->flrig: "none" | "up" | "eof" | "reset"
    brLink,           \* TCP connection relay<->rigctlcom, same values
    rig_tx,           \* bytes rigctlcom has written this session
    rig_q,            \* bytes of rig_tx waiting in the relay's receive buffer
    fl_rx,            \* bytes that reached flrig this session
    fl_tx,            \* bytes flrig has written this session
    fl_q,             \* bytes of fl_tx waiting in the relay's receive buffer
    rig_rx,           \* bytes that reached rigctlcom this session
    \* ---- RigProxies / WinProxyService (flrigproxy.py:141-223) ----
    platform,         \* platform.system(): "Windows" or another ("Linux")
    rigs,             \* config['rigs']: per rig, the length of its 'proxies' list
    proxies,          \* RigProxies.proxies: the RigProxy objects, in creation order
    sup_pc,           \* position of the main thread
    event,            \* WinProxyService.event, set by SvcStop
    shutdown,         \* what ended the wait loop: "none" | "operator" | "error"
    \* ---- WSJPacket.parse on one datagram ----
    fields,           \* what the sender put into the datagram
    msg,              \* the datagram: a sequence of bytes
    decoded,          \* <<>> before the call, then <<what parse(msg) gave>>
    \* ---- QSOForwarder (qsofwdsvc.py:69-182) ----
    sources,          \* self.sources, in insertion order: [ident, dest, proxysock]
    config,           \* self._config: its 'destinations' list
    last_config,      \* self._last_config
    file,             \* qsofwd.yaml on disk: [mtime, destinations]
    unreachable,      \* destinations to which sendto raises socket.error
    fpc,              \* position of the main loop / run_one
    readable,         \* run_one: the sockets select() returned
    proxysocks,       \* run_one: the {ident: proxysock} snapshot it starts with
    table0,           \* self.sources as run_one found it
    config0,          \* <<self._config, self._last_config>> as run_one found them
    received,         \* run_one: <<>> or <<[data, addr]>> read from self.inbound
    replies,          \* run_one: the [sock, data] read from dedicated sockets
    sent,             \* run_one: the sendto calls that went through, in order
    escaped           \* the exception that left run_one, "none" if none

relayVars == <<running, flrig_sock, rigctlcom_sock, rigctlcom, pc, r, exc,
               children, launched, ctlLink, brLink,
               rig_tx, rig_q, fl_rx, fl_tx, fl_q, rig_rx>>

supVars == <<platform, rigs, proxies, sup_pc, event, shutdown>>

codecVars == <<fields, msg, decoded>>

fwdState == <<sources, config, last_config>>
fwdEnv == <<file, unreachable>>
fwdCycle == <<readable, proxysocks, table0, config0, received, replies, sent>>
fwdVars == <<fwdState, fwdEnv, fwdCycle, fpc, escaped>>

vars == <<relayVars, supVars, codecVars, fwdVars>>

\* what a step of the relay, of the supervisor, of the decoder, of the
\* forwarder leaves alone
notRelay == <<supVars, codecVars, fwdVars>>
notSup == <<relayVars, codecVars, fwdVars>>
notCodec == <<relayVars, supVars, fwdVars>>
notFwd == <<relayVars, supVars, codecVars>>

handles == <<flrig_sock, rigctlcom_sock, rigctlcom>>
links   == <<ctlLink, brLink, children, launched>>
streams == <<rig_tx, rig_q, fl_rx, fl_tx, fl_q, rig_rx>>

(***************************************************************************)
(* Helpers on sequences.                                                   *)
(***************************************************************************)
Min(a, b) == IF a < b THEN a ELSE b

\* s[:n]
Take(s, n) == SubSeq(s, 1, Min(n, Len(s)))

\* s[n:]
Drop(s, n) == SubSeq(s, Min(n, Len(s)) + 1, Len(s))

NoExc == [kind |-> "none", at |-> "none"]

\* the positions of thread_loop that lie inside _proxy_loop
RelayPcs == {"select", "recv_rig", "recv_fl"}

(***************************************************************************)
(* RigProxy.__init__ followed by start(): no sockets, no child, the thread *)
(* about to test `while self.running`.                                     *)
(***************************************************************************)
RelayInit ==
    /\ running = TRUE
    /\ flrig_sock = "None"
    /\ rigctlcom_sock = "None"
    /\ rigctlcom = "None"
    /\ pc = "loop"
    /\ r = {}
    /\ exc = NoExc
    /\ children = 0
    /\ launched = 0
    /\ ctlLink = "none"
    /\ brLink = "none"
    /\ rig_tx = <<>> /\ rig_q = <<>> /\ fl_rx = <<>>
    /\ fl_tx = <<>> /\ fl_q = <<>> /\ rig_rx = <<>>

\* an exception of `kind` leaves the try block from step `at`; the locals of
\* _proxy_loop (r) go with its frame
Raise(kind, at) ==
    /\ exc' = [kind |-> kind, at |-> at]
    /\ pc' = "except"
    /\ r' = {}

(***************************************************************************)
(* RigProxy.stop: running = False; join(1) only waits, it changes nothing  *)
(* of the relay.                                                           *)
(***************************************************************************)
stop ==
    /\ running
    /\ running' = FALSE
    /\ UNCHANGED <<handles, pc, r, exc, links, streams>>
    /\ UNCHANGED notRelay

(***************************************************************************)
(* `while self.running:` of thread_loop.                                   *)
(***************************************************************************)
thread_loop ==
    /\ pc = "loop"
    /\ pc' = IF running THEN "connect" ELSE "done"
    /\ UNCHANGED <<running, handles, r, exc, links, streams>>
    /\ UNCHANGED notRelay

(***************************************************************************)
(* _connect_flrig: a fresh socket object replaces self._flrig_sock, then   *)
(* connect() either succeeds or raises. ConnectionRefusedError when flrig  *)
(* is not listening, another socket.error (timeout, unreachable), or an    *)
(* unexpected exception (self.port: KeyError on a config without           *)
(* flrigport).                                                             *)
(***************************************************************************)
connect_flrig ==
    /\ pc = "connect"
    /\ \/ /\ flrig_sock' = "connected"
          /\ ctlLink' = "up"
          /\ pc' = "spawn"
          /\ UNCHANGED <<exc, r>>
       \/ /\ flrig_sock' = "unconnected"
          /\ \E kind \in {"refused", "sockerr", "other"} : Raise(kind, "connect")
          /\ UNCHANGED ctlLink
    /\ UNCHANGED <<running, rigctlcom_sock, rigctlcom, children, launched, brLink, streams>>
    /\ UNCHANGED notRelay

(***************************************************************************)
(* `if self._flrig_sock and not self._rigctlcom: self._spawn_rigctlcom()`  *)
(* up to and including Popen. bind/listen/Popen may raise a socket.error   *)
(* (FileNotFoundError is an OSError) or an unexpected exception            *)
(* (KeyError on config['rigctlcom']) before the child exists.              *)
(***************************************************************************)
spawn_rigctlcom ==
    /\ pc = "spawn"
    /\ IF flrig_sock # "None" /\ rigctlcom = "None"
       THEN \/ /\ rigctlcom' = "alive"
               /\ children' = children + 1
               /\ launched' = launched + 1
               /\ pc' = "accept"
               /\ UNCHANGED <<exc, r>>
            \/ /\ \E kind \in {"sockerr", "other"} : Raise(kind, "spawn")
               /\ UNCHANGED <<rigctlcom, children, launched>>
       ELSE /\ pc' = "select"
            /\ UNCHANGED <<rigctlcom, children, launched, exc, r>>
    /\ UNCHANGED <<running, flrig_sock, rigctlcom_sock, ctlLink, brLink, streams>>
    /\ UNCHANGED notRelay

(***************************************************************************)
(* listen_sock.accept() of _spawn_rigctlcom: blocks until the child        *)
(* connects back; with the child gone it blocks for good.                  *)
(***************************************************************************)
accept_rigctlcom ==
    /\ pc = "accept"
    /\ rigctlcom = "alive"
    /\ \/ /\ rigctlcom_sock' = "connected"
          /\ brLink' = "up"
          /\ pc' = "select"
          /\ UNCHANGED <<exc, r>>
       \/ /\ Raise("sockerr", "accept")
          /\ UNCHANGED <<rigctlcom_sock, brLink>>
    /\ UNCHANGED <<running, flrig_sock, rigctlcom, children, launched, ctlLink, streams>>
    /\ UNCHANGED notRelay

\* a socket shows up in select()'s readable list when a recv would not block
Readable(link, q) == link \in {"eof", "reset"} \/ (link = "up" /\ q # <<>>)

(***************************************************************************)
(* select.select(socks, [], socks, 0.25) of _proxy_loop: returns the       *)
(* sockets that are readable now, or nothing after the timeout. The loop   *)
(* is `while True`: self.running is not read here.                         *)
(***************************************************************************)
proxy_select ==
    /\ pc = "select"
    /\ \/ /\ r' = (IF Readable(brLink, rig_q) THEN {"rigctlcom"} ELSE {})
                  \cup (IF Readable(ctlLink, fl_q) THEN {"flrig"} ELSE {})
          /\ pc' = "recv_rig"
          /\ UNCHANGED exc
       \/ Raise("other", "select")
    /\ UNCHANGED <<running, handles, links, streams>>
    /\ UNCHANGED notRelay

\* what sock.send(data) may return: the number of bytes the kernel took
SendAccepts(data) == IF data = <<>> THEN {0} ELSE 1..Len(data)

(***************************************************************************)
(* One direction of _proxy_loop: data = src.recv(65536); dst.send(data).   *)
(*   srcLink, q     the source connection and its receive buffer           *)
(*   dstLink, rx    the destination connection and what its peer got       *)
(*   q2, dstLink2, rx2   their values after the step                       *)
(*   next, rnext    where the loop goes on, and r there                    *)
(* recv raises on a reset connection and returns b'' at end of stream;     *)
(* send raises on a reset connection; what send returns is discarded.      *)
(* A peer that has closed answers data with a reset.                       *)
(***************************************************************************)
Forward(at, srcLink, q, dstLink, rx, q2, dstLink2, rx2, next, rnext) ==
    \/ /\ srcLink = "reset"
       /\ Raise("sockerr", at)
       /\ q2 = q /\ dstLink2 = dstLink /\ rx2 = rx
    \/ /\ srcLink # "reset"
       /\ LET data == Take(q, RecvSize) IN
          /\ q2 = Drop(q, RecvSize)
          /\ \/ /\ dstLink \in {"reset", "none"}
                /\ Raise("sockerr", at)
                /\ dstLink2 = dstLink /\ rx2 = rx
             \/ /\ dstLink = "up"
                /\ \E n \in SendAccepts(data) : rx2 = rx \o Take(data, n)
                /\ dstLink2 = dstLink
                /\ pc' = next /\ r' = rnext
                /\ UNCHANGED exc
             \/ /\ dstLink = "eof"
                /\ dstLink2 = (IF data = <<>> THEN "eof" ELSE "reset")
                /\ rx2 = rx
                /\ pc' = next /\ r' = rnext
                /\ UNCHANGED exc

(***************************************************************************)
(* `if self._rigctlcom_sock in r:` of _proxy_loop.                         *)
(***************************************************************************)
proxy_recv_rig ==
    /\ pc = "recv_rig"
    /\ IF "rigctlcom" \in r
       THEN Forward("recv_rig", brLink, rig_q, ctlLink, fl_rx,
                    rig_q', ctlLink', fl_rx', "recv_fl", r)
       ELSE /\ pc' = "recv_fl"
            /\ UNCHANGED <<exc, r, rig_q, ctlLink, fl_rx>>
    /\ UNCHANGED <<running, handles, children, launched, brLink, rig_tx, fl_tx, fl_q, rig_rx>>
    /\ UNCHANGED notRelay

(***************************************************************************)
(* `if self._flrig_sock in r:` of _proxy_loop; the end of one iteration of *)
(* `while True`.                                                           *)
(***************************************************************************)
proxy_recv_fl ==
    /\ pc = "recv_fl"
    /\ IF "flrig" \in r
       THEN Forward("recv_fl", ctlLink, fl_q, brLink, rig_rx,
                    fl_q', brLink', rig_rx', "select", {})
       ELSE /\ pc' = "select"
            /\ r' = {}
            /\ UNCHANGED <<exc, fl_q, brLink, rig_rx>>
    /\ UNCHANGED <<running, handles, children, launched, ctlLink, rig_tx, rig_q, fl_rx, fl_tx>>
    /\ UNCHANGED notRelay

\* _reset without the kill()/wait() of the child
reset_keeps_child ==
    /\ rigctlcom_sock' = "None"
    /\ UNCHANGED <<rigctlcom, children>>
    /\ launched' = 0
    /\ flrig_sock' = "None"
    /\ brLink' = "none"
    /\ ctlLink' = "none"
    /\ rig_tx' = <<>> /\ rig_q' = <<>> /\ fl_rx' = <<>>
    /\ fl_tx' = <<>> /\ fl_q' = <<>> /\ rig_rx' = <<>>

\* _reset without the close of the rigctlcom socket
reset_keeps_bridge_socket ==
    /\ UNCHANGED <<rigctlcom_sock, brLink>>
    /\ rigctlcom' = "None"
    /\ children' = IF rigctlcom = "alive" THEN children - 1 ELSE children
    /\ launched' = 0
    /\ flrig_sock' = "None"
    /\ ctlLink' = "none"
    /\ rig_tx' = <<>> /\ rig_q' = <<>> /\ fl_rx' = <<>>
    /\ fl_tx' = <<>> /\ fl_q' = <<>> /\ rig_rx' = <<>>

\* _reset dropping the Popen handle without kill()/wait()
reset_forgets_child ==
    /\ rigctlcom_sock' = "None"
    /\ rigctlcom' = "None"
    /\ UNCHANGED children
    /\ launched' = 0
    /\ flrig_sock' = "None"
    /\ brLink' = "none"
    /\ ctlLink' = "none"
    /\ rig_tx' = <<>> /\ rig_q' = <<>> /\ fl_rx' = <<>>
    /\ fl_tx' = <<>> /\ fl_q' = <<>> /\ rig_rx' = <<>>

(***************************************************************************)
(* _reset: close the rigctlcom socket, kill and wait for rigctlcom, close  *)
(* the flrig socket; each only if present. Closing a socket ends its       *)
(* connection and drops what is buffered on it.                            *)
(***************************************************************************)
reset ==
    /\ rigctlcom_sock' = "None"
    /\ rigctlcom' = "None"
    /\ children' = IF rigctlcom = "alive" THEN children - 1 ELSE children
    /\ launched' = 0
    /\ flrig_sock' = "None"
    /\ brLink' = "none"
    /\ ctlLink' = "none"
    /\ rig_tx' = <<>> /\ rig_q' = <<>> /\ fl_rx' = <<>>
    /\ fl_tx' = <<>> /\ fl_q' = <<>> /\ rig_rx' = <<>>

\* thread_loop whose ConnectionRefusedError clause re-raises: the thread ends
except_handler_refused_escapes ==
    /\ pc = "except"
    /\ IF exc.kind = "refused"
       THEN pc' = "done" /\ UNCHANGED <<handles, links, streams>>
       ELSE pc' = "loop" /\ reset
    /\ UNCHANGED <<running, r, exc>>
    /\ UNCHANGED notRelay

\* thread_loop without its `except Exception` clause: the thread ends
except_handler_no_catchall ==
    /\ pc = "except"
    /\ CASE exc.kind = "refused" -> pc' = "loop" /\ UNCHANGED <<handles, links, streams>>
         [] exc.kind = "other"   -> pc' = "done" /\ UNCHANGED <<handles, links, streams>>
         [] OTHER                -> pc' = "loop" /\ reset
    /\ UNCHANGED <<running, r, exc>>
    /\ UNCHANGED notRelay

(***************************************************************************)
(* The except clauses of thread_loop, in their order:                      *)
(*   ConnectionRefusedError: pass                                          *)
(*   socket.error:           _reset()                                      *)
(*   Exception:              log, _reset()                                 *)
(* after which the while loop tests self.running again.                    *)
(***************************************************************************)
except_handler ==
    /\ pc = "except"
    /\ IF exc.kind = "refused"
       THEN UNCHANGED <<handles, links, streams>>
       ELSE reset
    /\ pc' = "loop"
    /\ UNCHANGED <<running, r, exc>>
    /\ UNCHANGED notRelay

(***************************************************************************)
(* The peers.                                                              *)
(***************************************************************************)
\* rigctlcom writes a byte to its end of the bridge connection; the i-th byte
\* of a session carries the value i, so that a lost, repeated or misplaced
\* byte shows in what arrives
rigctlcom_writes ==
    /\ brLink = "up"
    /\ Len(rig_tx) < MaxBytes
    /\ LET b == Len(rig_tx) + 1 IN
         /\ rig_tx' = Append(rig_tx, b)
         /\ rig_q' = Append(rig_q, b)
    /\ UNCHANGED <<running, handles, pc, r, exc, links, fl_rx, fl_tx, fl_q, rig_rx>>
    /\ UNCHANGED notRelay

\* flrig writes a byte to its end of the control connection
flrig_writes ==
    /\ ctlLink = "up"
    /\ Len(fl_tx) < MaxBytes
    /\ LET b == Len(fl_tx) + 1 IN
         /\ fl_tx' = Append(fl_tx, b)
         /\ fl_q' = Append(fl_q, b)
    /\ UNCHANGED <<running, handles, pc, r, exc, links, rig_tx, rig_q, fl_rx, rig_rx>>
    /\ UNCHANGED notRelay

\* rigctlcom exits on its own: cleanly (end of stream) or not (reset)
rigctlcom_exits ==
    /\ rigctlcom = "alive"
    /\ rigctlcom' = "exited"
    /\ children' = children - 1
    /\ UNCHANGED launched
    /\ \/ brLink = "up" /\ brLink' \in {"eof", "reset"}
       \/ brLink # "up" /\ UNCHANGED brLink
    /\ UNCHANGED <<running, flrig_sock, rigctlcom_sock, pc, r, exc, ctlLink, streams>>
    /\ UNCHANGED notRelay

\* flrig closes the control connection: cleanly or with a reset
flrig_disconnects ==
    /\ ctlLink = "up"
    /\ ctlLink' \in {"eof", "reset"}
    /\ UNCHANGED <<running, handles, pc, r, exc, children, launched, brLink, streams>>
    /\ UNCHANGED notRelay

(***************************************************************************)
(* The supervisor: RigProxies (any platform) and WinProxyService           *)
(* (Windows). Each RigProxy it holds is the object of the relay            *)
(* specification above; here only what the supervisor itself reads and     *)
(* writes of it is kept: its (rig, proxy) indices, whether start() was     *)
(* called, self.running, and whether stop() was called.                    *)
(***************************************************************************)
\* the supervisor is not part of the relay specification
SupIdle ==
    /\ platform = "Linux"
    /\ rigs = <<>>
    /\ proxies = <<>>
    /\ sup_pc = "off"
    /\ event = FALSE
    /\ shutdown = "none"

\* the (i, j) pairs of `for i, rig in enumerate(rigs): for j, proxy in
\* enumerate(rig['proxies'])`, in the order the loops visit them
RECURSIVE PairsFrom(_, _, _)
PairsFrom(cfg, i, j) ==
    IF i > Len(cfg) THEN <<>>
    ELSE IF j > cfg[i] THEN PairsFrom(cfg, i + 1, 1)
    ELSE <<[rig |-> i, proxy |-> j]>> \o PairsFrom(cfg, i, j + 1)

Pairs(cfg) == PairsFrom(cfg, 1, 1)

\* every configuration within the bounds
Configs == UNION {[1..n -> 0..MaxProxies] : n \in 0..MaxRigs}

\* the process starts: proxycls.main() on the platform's class
SupInit ==
    /\ platform \in {"Linux", "Windows"}
    /\ rigs \in Configs
    /\ proxies = <<>>
    /\ sup_pc = "construct"
    /\ event = FALSE
    /\ shutdown = "none"

(***************************************************************************)
(* One iteration of the loops of RigProxies.__init__:                      *)
(* p = RigProxy(config, i, j); p.start(); self.proxies.append(p).          *)
(* After the last one the caller goes on: poll() or the wait loop of       *)
(* SvcDoRun.                                                               *)
(***************************************************************************)
RigProxies_init ==
    /\ sup_pc = "construct"
    /\ LET todo == Pairs(rigs) IN
       IF Len(proxies) < Len(todo)
       THEN /\ proxies' = Append(proxies,
                   [rig |-> todo[Len(proxies) + 1].rig,
                    proxy |-> todo[Len(proxies) + 1].proxy,
                    running |-> TRUE,
                    started |-> TRUE,
                    stopped |-> FALSE])
            /\ UNCHANGED sup_pc
       ELSE /\ sup_pc' = "wait"
            /\ UNCHANGED proxies
    /\ UNCHANGED <<platform, rigs, event, shutdown>>
    /\ UNCHANGED notSup

(***************************************************************************)
(* RigProxies.poll, the wait: `while True: time.sleep(0.25)` inside        *)
(* `try ... except Exception: pass`. The operator's interrupt arrives as   *)
(* KeyboardInterrupt, which is no Exception: it leaves poll(). Only an     *)
(* Exception raised by the sleep reaches the stop loop.                    *)
(***************************************************************************)
poll_wait ==
    /\ sup_pc = "wait"
    /\ platform # "Windows"
    /\ \/ /\ shutdown' = "operator"
          /\ sup_pc' = "exited"
       \/ /\ shutdown' = "error"
          /\ sup_pc' = "stop_all"
    /\ UNCHANGED <<platform, rigs, proxies, event>>
    /\ UNCHANGED notSup

(***************************************************************************)
(* RigProxies.poll, one iteration of `for p in self.proxies: p.stop()`:    *)
(* the first relay not yet stopped gets running = False.                   *)
(***************************************************************************)
poll_stop_all ==
    /\ sup_pc = "stop_all"
    /\ LET done == Cardinality({k \in 1..Len(proxies) : proxies[k].stopped}) IN
       IF done < Len(proxies)
       THEN /\ proxies' = [proxies EXCEPT ![done + 1].running = FALSE,
                                          ![done + 1].stopped = TRUE]
            /\ UNCHANGED sup_pc
       ELSE /\ sup_pc' = "exited"
            /\ UNCHANGED proxies
    /\ UNCHANGED <<platform, rigs, event, shutdown>>
    /\ UNCHANGED notSup

(***************************************************************************)
(* WinProxyService.SvcStop: the service manager asks the service to stop.  *)
(***************************************************************************)
SvcStop ==
    /\ platform = "Windows"
    /\ sup_pc = "wait"
    /\ ~event
    /\ event' = TRUE
    /\ UNCHANGED <<platform, rigs, proxies, sup_pc, shutdown>>
    /\ UNCHANGED notSup

(***************************************************************************)
(* WinProxyService.SvcDoRun after construction: the wait loop breaks once  *)
(* the event is set, then `for p in self.proxies: p.stop()`, where         *)
(* self.proxies is the RigProxies object itself (line 197), which defines  *)
(* neither __iter__ nor __getitem__: the for statement raises TypeError    *)
(* before any stop() and SvcDoRun ends.                                    *)
(***************************************************************************)
SvcDoRun ==
    /\ platform = "Windows"
    /\ sup_pc = "wait"
    /\ event
    /\ shutdown' = "operator"
    /\ sup_pc' = "exited"
    /\ UNCHANGED <<platform, rigs, proxies, event>>
    /\ UNCHANGED notSup

(***************************************************************************)
(* WSJPacket: the decoder of WSJT-X datagrams (qsofwdsvc.py:22-59).        *)
(* A datagram is a sequence of bytes (0..255); a str is the sequence of    *)
(* its code points. What a call gives is a record:                         *)
(*   [kind |-> "raise", err |-> <exception type>]                          *)
(*   [kind |-> "None"]                    (parse returned without a value) *)
(*   [kind |-> "packet", type, ident, hb] (hb: <<>> or one record of the   *)
(*                                         attributes parse_type_0 adds)   *)
(***************************************************************************)
WSJTX_HEARTBEAT == 0

\* 0xADBCCBDA as struct '>I' lays it out. The value is above 2^31 - 1, the
\* largest integer TLC represents, so the magic is compared byte by byte.
MagicBytes == <<173, 188, 203, 218>>

\* buf[a:b] of Python, 0 <= a <= b
Slice(buf, a, b) == SubSeq(buf, Min(a, Len(buf)) + 1, Min(b, Len(buf)))

\* struct.unpack('>I', bs) for the 4 bytes bs
U32(bs) == ((bs[1] * 256 + bs[2]) * 256 + bs[3]) * 256 + bs[4]

Raised(err) == [kind |-> "raise", err |-> err]

\* Python values that are compared across types: (3,) == 3 is False
PyInt(n) == [int |-> n]
PyTuple(t) == [tuple |-> t]

\* a UTF-8 continuation byte
IsCont(b) == b \in 128..191

(***************************************************************************)
(* bytes.decode(): strict UTF-8. Gives <<TRUE, code points>> or <<FALSE>>  *)
(* (UnicodeDecodeError).                                                   *)
(***************************************************************************)
RECURSIVE Utf8From(_, _)
Utf8From(bs, i) ==
    IF i > Len(bs) THEN <<TRUE, <<>>>>
    ELSE
      LET b == bs[i]
          has(k) == i + k <= Len(bs) /\ \A d \in 1..k : IsCont(bs[i + d])
          more(cp, k) == LET rest == Utf8From(bs, i + k + 1) IN
                         IF rest[1] THEN <<TRUE, <<cp>> \o rest[2]>> ELSE <<FALSE>>
      IN
      IF b < 128 THEN more(b, 0)
      ELSE IF b \in 194..223 /\ has(1)
        THEN more((b - 192) * 64 + (bs[i + 1] - 128), 1)
      ELSE IF b \in 224..239 /\ has(2)
              /\ (b = 224 => bs[i + 1] >= 160)
              /\ (b = 237 => bs[i + 1] <= 159)
        THEN more(((b - 224) * 64 + (bs[i + 1] - 128)) * 64 + (bs[i + 2] - 128), 2)
      ELSE IF b \in 240..244 /\ has(3)
              /\ (b = 240 => bs[i + 1] >= 144)
              /\ (b = 244 => bs[i + 1] <= 143)
        THEN more((((b - 240) * 64 + (bs[i + 1] - 128)) * 64
                      + (bs[i + 2] - 128)) * 64 + (bs[i + 3] - 128), 3)
      ELSE <<FALSE>>

decode(bs) == Utf8From(bs, 1)

(***************************************************************************)
(* WSJPacket.parse_string(buffer, offset):                                 *)
(*   size, = struct.unpack('>I', buffer[offset:offset + 4])                *)
(*   return buffer[offset + 4:offset + 4 + size].decode()                  *)
(* unpack raises struct.error unless the slice has 4 bytes; the second     *)
(* slice stops at the end of the buffer, whatever size says. Gives         *)
(* [kind |-> "str", val |-> code points] or a raise.                       *)
(***************************************************************************)
parse_string(buffer, offset) ==
    LET pre == Slice(buffer, offset, offset + 4) IN
    IF Len(pre) # 4 THEN Raised("struct.error")
    ELSE LET size == U32(pre)
             raw == Slice(buffer, offset + 4, offset + 4 + Min(size, Len(buffer)))
             str == decode(raw)
         IN IF str[1] THEN [kind |-> "str", val |-> str[2]]
            ELSE Raised("UnicodeDecodeError")

(***************************************************************************)
(* WSJPacket.parse_type_0(message, offset):                                *)
(*   max_schema = struct.unpack('>I', message[offset:offset + 4])          *)
(*   offset += 4                                                           *)
(*   version = cls.parse_string(message, offset)                           *)
(*   offset += len(version)                                                *)
(*   revision = cls.parse_string(message, offset)                          *)
(* max_schema is the tuple unpack returns (no `,` after the name, unlike   *)
(* parse_string); the offset of revision moves by len(version) only, the   *)
(* 4 bytes of the length prefix are not added.                             *)
(***************************************************************************)
parse_type_0(message, offset) ==
    LET ms == Slice(message, offset, offset + 4) IN
    IF Len(ms) # 4 THEN Raised("struct.error")
    ELSE LET version == parse_string(message, offset + 4) IN
         IF version.kind = "raise" THEN version
         ELSE LET revision == parse_string(message, offset + 4 + Len(version.val)) IN
              IF revision.kind = "raise" THEN revision
              ELSE [kind |-> "dict",
                    version |-> version.val,
                    revision |-> revision.val,
                    max_schema |-> PyTuple(<<U32(ms)>>)]

\* parse without the magic test
parse_skips_magic(message) ==
    LET head == Slice(message, 0, 12) IN
    IF Len(head) # 12 THEN Raised("struct.error")
    ELSE IF U32(Slice(head, 4, 8)) # 2 THEN [kind |-> "None"]
    ELSE LET number == U32(Slice(head, 8, 12))
             ident == parse_string(message, 12)
         IN IF ident.kind = "raise" THEN ident
            ELSE IF number = 0
            THEN LET props == parse_type_0(message, 16 + Len(ident.val)) IN
                 IF props.kind = "raise" THEN props
                 ELSE [kind |-> "packet", type |-> number, ident |-> ident.val,
                       hb |-> <<[version |-> props.version,
                                 revision |-> props.revision,
                                 max_schema |-> props.max_schema]>>]
            ELSE [kind |-> "packet", type |-> number, ident |-> ident.val, hb |-> <<>>]

(***************************************************************************)
(* WSJPacket.parse(message):                                               *)
(*   magic, schema, number = struct.unpack('>III', message[:12])           *)
(*   magic != 0xADBCCBDA: return; schema != 2: return                      *)
(*   ident = parse_string(message, 12)                                     *)
(*   number == 0: props = parse_type_0(message, 16 + len(ident))           *)
(*   props.update(type, ident); return the packet built from props        *)
(* len(ident) counts code points of the decoded str.                       *)
(***************************************************************************)
parse(message) ==
    LET head == Slice(message, 0, 12) IN
    IF Len(head) # 12 THEN Raised("struct.error")
    ELSE IF Slice(head, 0, 4) # MagicBytes THEN [kind |-> "None"]
    ELSE IF U32(Slice(head, 4, 8)) # 2 THEN [kind |-> "None"]
    ELSE LET number == U32(Slice(head, 8, 12))
             ident == parse_string(message, 12)
         IN IF ident.kind = "raise" THEN ident
            ELSE IF number = 0
            THEN LET props == parse_type_0(message, 16 + Len(ident.val)) IN
                 IF props.kind = "raise" THEN props
                 ELSE [kind |-> "packet", type |-> number, ident |-> ident.val,
                       hb |-> <<[version |-> props.version,
                                 revision |-> props.revision,
                                 max_schema |-> props.max_schema]>>]
            ELSE [kind |-> "packet", type |-> number, ident |-> ident.val, hb |-> <<>>]

(***************************************************************************)
(* The datagrams given to parse: what a WSJT-X instance lays out for the   *)
(* fields below (the layout parse reads back), possibly damaged.           *)
(***************************************************************************)
\* "FT-101", "B", "2.0", "abc" as code points (all ASCII)
StrFT101 == <<70, 84, 45, 49, 48, 49>>
StrB == <<66>>
Str20 == <<50, 46, 48>>
StrAbc == <<97, 98, 99>>
\* "é" (U+00E9): one code point, two bytes in UTF-8
StrEacute == <<233>>

\* str.encode() for code points below 0x800
RECURSIVE encode(_)
encode(str) ==
    IF str = <<>> THEN <<>>
    ELSE (IF Head(str) < 128 THEN <<Head(str)>>
          ELSE <<192 + (Head(str) \div 64), 128 + (Head(str) % 64)>>) \o encode(Tail(str))

\* struct.pack('>I', n) for n < 2^16
Pack32(n) == <<0, 0, (n \div 256), (n % 256)>>

\* a length-prefixed string whose prefix overstates the length by `over`
PackString(str, over) == Pack32(Len(encode(str)) + over) \o encode(str)

\* the whole datagram of fields f, with f.cut bytes missing at the end
Datagram(f) ==
    LET body == f.magic \o Pack32(f.schema) \o Pack32(f.type)
                \o (IF f.type = WSJTX_HEARTBEAT
                    THEN PackString(f.ident, 0) \o Pack32(f.max_schema)
                         \o PackString(f.version, 0) \o PackString(f.revision, f.over)
                    ELSE PackString(f.ident, f.over))
    IN SubSeq(body, 1, Len(body) - Min(f.cut, Len(body)))

\* a wrong magic: 0xADBCCBDB
BadMagicBytes == <<173, 188, 203, 219>>

\* the fields a datagram is made of; the non-ASCII identity is used for the
\* datagrams that carry an identity only
FieldSets ==
    {f \in [magic : {MagicBytes, BadMagicBytes},
            schema : {2, 3},
            type : {WSJTX_HEARTBEAT, 1},
            ident : {StrFT101, StrB, StrEacute, <<>>},
            max_schema : {2, 3},
            version : {Str20, <<>>},
            revision : {StrAbc, <<>>},
            cut : 0..MaxCut,
            over : 0..MaxOver] :
        /\ f.type # WSJTX_HEARTBEAT =>
              f.max_schema = 3 /\ f.version = Str20 /\ f.revision = StrAbc
        /\ f.type = WSJTX_HEARTBEAT => f.ident # StrEacute}

\* an intact datagram with the right magic and schema
WellFormed(f) ==
    /\ f.magic = MagicBytes /\ f.schema = 2
    /\ f.cut = 0 /\ f.over = 0

\* no datagram is being decoded outside the decoder's specification
CodecIdle ==
    /\ fields = <<>>
    /\ msg = <<>>
    /\ decoded = <<>>

CodecInit ==
    /\ fields \in FieldSets
    /\ msg = Datagram(fields)
    /\ decoded = <<>>

\* p = WSJPacket.parse(data)
WSJPacket_parse ==
    /\ fields # <<>>
    /\ decoded = <<>>
    /\ decoded' = <<parse(msg)>>
    /\ UNCHANGED <<fields, msg>>
    /\ UNCHANGED notCodec

(***************************************************************************)
(* QSOForwarder (qsofwdsvc.py:62-182).                                     *)
(* Addresses are tokens: "A1", "A2" senders on the inbound socket, "D1",   *)
(* "D2" configured destinations (host and port). A dedicated socket is the *)
(* number of the WSJTXSource that created it.                              *)
(***************************************************************************)
Addrs == {"A1", "A2"}

\* self.inbound among the sockets; the dedicated ones are 1, 2, ...
inbound == 0

\* the 'destinations' lists qsofwd.yaml may hold
DestLists == {<<>>, <<"D1">>, <<"D1", "D2">>}

\* an intact message of type t from the instance named id
Message(t, id) ==
    [magic |-> MagicBytes, schema |-> 2, type |-> t, ident |-> id,
     max_schema |-> 3, version |-> Str20, revision |-> StrAbc,
     cut |-> 0, over |-> 0]

\* the intact messages that arrive on the inbound socket: heartbeats and
\* status messages of "FT-101" and "B", and a heartbeat of "FT-101" whose
\* version is "é"
IntactFields ==
    {Message(t, id) : t \in {WSJTX_HEARTBEAT, 1}, id \in {StrFT101, StrB}}
        \cup {[Message(WSJTX_HEARTBEAT, StrFT101) EXCEPT !.version = StrEacute]}

\* the datagrams that arrive on the inbound socket: the intact messages,
\* and messages of "FT-101" with a wrong magic, a wrong schema, an
\* overstated length, a missing tail
InboundFields ==
    IntactFields
        \cup {[Message(WSJTX_HEARTBEAT, StrFT101) EXCEPT !.magic = BadMagicBytes],
              [Message(1, StrFT101) EXCEPT !.schema = 3],
              [Message(1, StrFT101) EXCEPT !.over = 1],
              [Message(WSJTX_HEARTBEAT, StrFT101) EXCEPT !.cut = 2]}

InboundDatagrams == {Datagram(f) : f \in InboundFields}

\* what a consumer sends back to a dedicated socket
ReplyDatagrams ==
    {Datagram(f) : f \in {Message(1, StrFT101), Message(1, StrB),
                          [Message(1, StrFT101) EXCEPT !.schema = 3]}}

\* the forwarder is not part of the other specifications
FwdIdle ==
    /\ sources = <<>>
    /\ config = <<>>
    /\ last_config = 0
    /\ file = [mtime |-> 1, destinations |-> <<>>]
    /\ unreachable = {}
    /\ fpc = "off"
    /\ readable = {}
    /\ proxysocks = <<>>
    /\ table0 = <<>>
    /\ config0 = <<>>
    /\ received = <<>>
    /\ replies = <<>>
    /\ sent = <<>>
    /\ escaped = "none"

\* the `config` property if it never looked at the file again
ConfigAccess_keeps_loaded == <<config, last_config>>

(***************************************************************************)
(* The `config` property: stat the file and, if its st_mtime is later      *)
(* than self._last_config, _parse_config: load it and remember its         *)
(* st_mtime. Gives <<self._config, self._last_config>> after the access.   *)
(***************************************************************************)
ConfigAccess ==
    IF file.mtime > last_config
    THEN <<file.destinations, file.mtime>>
    ELSE <<config, last_config>>

(***************************************************************************)
(* setup(): _last_config = 0, _config = {}, the inbound socket, a first    *)
(* access to self.config (which loads the file), sources = {}. The main    *)
(* loop is about to call run_one.                                          *)
(***************************************************************************)
FwdInit ==
    /\ file \in [mtime : 1..MaxMtime, destinations : DestLists]
    /\ config = file.destinations
    /\ last_config = file.mtime
    /\ sources = <<>>
    /\ unreachable \in {{}, {"D1"}}
    /\ fpc = "idle"
    /\ readable = {}
    /\ proxysocks = <<>>
    /\ table0 = <<>>
    /\ config0 = <<>>
    /\ received = <<>>
    /\ replies = <<>>
    /\ sent = <<>>
    /\ escaped = "none"

\* the position of `ident` in self.sources, 0 for a KeyError
Lookup(tbl, ident) ==
    IF \E k \in 1..Len(tbl) : tbl[k].ident = ident
    THEN CHOOSE k \in 1..Len(tbl) : tbl[k].ident = ident
    ELSE 0

(***************************************************************************)
(* run_one, first lines: the {ident: proxysock} snapshot and select() on   *)
(* the inbound socket and every dedicated socket. Any subset may be        *)
(* readable; none after the 0.25 s timeout.                                *)
(***************************************************************************)
run_one_select ==
    /\ fpc = "idle"
    /\ proxysocks' = [k \in 1..Len(sources) |->
                        [ident |-> sources[k].ident, sock |-> sources[k].proxysock]]
    /\ readable' \in SUBSET ({inbound} \cup {sources[k].proxysock : k \in 1..Len(sources)})
    /\ table0' = sources
    /\ config0' = <<config, last_config>>
    /\ fpc' = "inbound"
    /\ UNCHANGED <<fwdState, fwdEnv, received, replies, sent, escaped>>
    /\ UNCHANGED notFwd

\* the sendto calls of `for dest in self.config.get('destinations', [])` that
\* go through: one per destination that is reachable
RECURSIVE FanOut(_, _, _)
FanOut(sock, data, dests) ==
    IF dests = <<>> THEN <<>>
    ELSE (IF Head(dests) \in unreachable
          THEN <<>>
          ELSE <<[via |-> sock, data |-> data, to |-> Head(dests)]>>)
         \o FanOut(sock, data, Tail(dests))

(***************************************************************************)
(* run_one, "WSJTX -> consumers" (lines 112-143), for the datagram `data`  *)
(* from `addr`:                                                            *)
(*   p = WSJPacket.parse(data)         an exception of parse leaves        *)
(*                                     run_one                             *)
(*   source = self.sources[p.ident]    p is None: AttributeError, which    *)
(*                                     `except KeyError` does not catch    *)
(*   found: source.dest = addr                                             *)
(*   KeyError: a heartbeat adds WSJTXSource(p.ident, addr) with a new      *)
(*             socket; anything else leaves source = None                  *)
(*   for dest in self.config...: source.proxysock.sendto(data, dest);      *)
(*             AttributeError (source is None) and socket.error are        *)
(*             caught per destination                                      *)
(***************************************************************************)
\* the table if any message of an unknown identity made an entry
Learn_any_type(p, addr) ==
    LET k == Lookup(sources, p.ident) IN
    IF k > 0
    THEN [sources EXCEPT ![k].dest = addr]
    ELSE Append(sources, [ident |-> p.ident, dest |-> addr,
                          proxysock |-> Len(sources) + 1])

\* the table if a known identity got a new WSJTXSource (and socket) instead
\* of a new return address
Learn_replaces_source(p, addr) ==
    LET k == Lookup(sources, p.ident) IN
    IF k > 0
    THEN [sources EXCEPT ![k] = [ident |-> p.ident, dest |-> addr,
                                 proxysock |-> Len(sources) + 1]]
    ELSE IF p.type = WSJTX_HEARTBEAT
    THEN Append(sources, [ident |-> p.ident, dest |-> addr,
                          proxysock |-> Len(sources) + 1])
    ELSE sources

Learn(p, addr) ==
    LET k == Lookup(sources, p.ident) IN
    IF k > 0
    THEN [sources EXCEPT ![k].dest = addr]
    ELSE IF p.type = WSJTX_HEARTBEAT
    THEN Append(sources, [ident |-> p.ident, dest |-> addr,
                          proxysock |-> Len(sources) + 1])
    ELSE sources

Forward_to_consumers(tbl, src, cfg, data) ==
    /\ sources' = tbl
    /\ config' = cfg[1]
    /\ last_config' = cfg[2]
    /\ sent' = IF src = 0 THEN <<>>
               ELSE FanOut(tbl[src].proxysock, data, cfg[1])
    /\ fpc' = "replies"
    /\ UNCHANGED escaped

Deliver(p, data, addr) ==
    /\ received' = <<[data |-> data, addr |-> addr]>>
    /\ IF p.kind # "packet"
       THEN /\ escaped' = (IF p.kind = "raise" THEN p.err ELSE "AttributeError")
            /\ fpc' = "crashed"
            /\ UNCHANGED <<sources, config, last_config, sent>>
       ELSE Forward_to_consumers(Learn(p, addr), Lookup(Learn(p, addr), p.ident),
                                 ConfigAccess, data)

Inbound(data, addr) == Deliver(parse(data), data, addr)

\* `if self.inbound in readable:` with what recvfrom(65535) returns
run_one_inbound ==
    /\ fpc = "inbound"
    /\ IF inbound \in readable
       THEN \E data \in InboundDatagrams, addr \in Addrs : Inbound(data, addr)
       ELSE /\ fpc' = "replies"
            /\ UNCHANGED <<fwdState, received, sent, escaped>>
    /\ UNCHANGED <<fwdEnv, readable, proxysocks, table0, config0, replies>>
    /\ UNCHANGED notFwd

(***************************************************************************)
(* run_one, "Reply consumer -> WSJTX" (lines 146-169), for one dedicated   *)
(* socket that is readable and what recvfrom gave on it: err "reset" for   *)
(* ConnectionResetError (caught: continue), else a datagram.               *)
(*   p = WSJPacket.parse(data)         as above                            *)
(*   source = self.sources[p.ident]    p is None: AttributeError           *)
(*   self.inbound.sendto(data, source.dest)                                *)
(*   KeyError: logged                                                      *)
(* Gives [sent |-> the sendto that went through, err |-> the exception     *)
(* that leaves run_one or "none"].                                         *)
(***************************************************************************)
\* the reply routed to the source whose dedicated socket it was read on
Route_by_socket_owner(p, data) ==
    IF p.kind = "raise" THEN [sent |-> <<>>, err |-> p.err]
    ELSE IF p.kind = "None" THEN [sent |-> <<>>, err |-> "AttributeError"]
    ELSE [sent |-> <<[via |-> inbound, data |-> data,
                      to |-> sources[Lookup(sources,
                                 proxysocks[Len(replies) + 1].ident)].dest]>>,
          err |-> "none"]

Route(p, data) ==
    IF p.kind = "raise" THEN [sent |-> <<>>, err |-> p.err]
    ELSE IF p.kind = "None" THEN [sent |-> <<>>, err |-> "AttributeError"]
    ELSE IF Lookup(sources, p.ident) = 0 THEN [sent |-> <<>>, err |-> "none"]
    ELSE [sent |-> <<[via |-> inbound, data |-> data,
                      to |-> sources[Lookup(sources, p.ident)].dest]>>,
          err |-> "none"]

Reply(got) ==
    IF got.err = "reset" THEN [sent |-> <<>>, err |-> "none"]
    ELSE Route(parse(got.data), got.data)

\* what recvfrom gives on a readable dedicated socket
Recvfrom ==
    {[err |-> "none", data |-> d] : d \in ReplyDatagrams}
        \cup {[err |-> "reset", data |-> <<>>]}

\* one iteration of `for ident, proxysock in proxysocks.items():`, the
\* entry at position Len(replies) + 1 of the snapshot; after the last one
\* run_one returns
run_one_replies ==
    /\ fpc = "replies"
    /\ LET n == Len(replies) + 1 IN
       IF n > Len(proxysocks)
       THEN /\ fpc' = "returned"
            /\ UNCHANGED <<replies, sent, escaped>>
       ELSE IF proxysocks[n].sock \notin readable
       THEN /\ replies' = Append(replies, [sock |-> proxysocks[n].sock,
                                       got |-> [err |-> "unread", data |-> <<>>]])
            /\ UNCHANGED <<fpc, sent, escaped>>
       ELSE \E got \in Recvfrom :
              LET res == Reply(got) IN
              /\ replies' = Append(replies, [sock |-> proxysocks[n].sock, got |-> got])
              /\ sent' = sent \o res.sent
              /\ escaped' = res.err
              /\ fpc' = IF res.err = "none" THEN "replies" ELSE "crashed"
    /\ UNCHANGED <<fwdState, fwdEnv, readable, proxysocks, table0, config0, received>>
    /\ UNCHANGED notFwd

(***************************************************************************)
(* The main loop after run_one returned. POSIXQSOForwarder.main touches    *)
(* forwarder.config (a reload if the file is newer); the loop of           *)
(* WinQSOFWDService.SvcDoRun does not. The locals of run_one are gone.     *)
(***************************************************************************)
main_loop ==
    /\ fpc = "returned"
    /\ IF platform # "Windows"
       THEN /\ config' = ConfigAccess[1]
            /\ last_config' = ConfigAccess[2]
       ELSE UNCHANGED <<config, last_config>>
    /\ fpc' = "idle"
    /\ readable' = {}
    /\ proxysocks' = <<>>
    /\ table0' = <<>>
    /\ config0' = <<>>
    /\ received' = <<>>
    /\ replies' = <<>>
    /\ sent' = <<>>
    /\ UNCHANGED <<sources, fwdEnv, escaped>>
    /\ UNCHANGED notFwd

\* somebody rewrites qsofwd.yaml between two cycles
config_edited ==
    /\ fpc = "idle"
    /\ file' \in [mtime : 1..MaxMtime, destinations : DestLists]
    /\ file' # file
    /\ UNCHANGED <<fwdState, unreachable, fwdCycle, fpc, escaped>>
    /\ UNCHANGED notFwd

\* a destination host goes away or comes back between two cycles
reachability_changes ==
    /\ fpc = "idle"
    /\ unreachable' \in {{}, {"D1"}}
    /\ unreachable' # unreachable
    /\ UNCHANGED <<fwdState, file, fwdCycle, fpc, escaped>>
    /\ UNCHANGED notFwd

(***************************************************************************)
(* The specification of one relay.                                         *)
(***************************************************************************)
Init == RelayInit /\ SupIdle /\ CodecIdle /\ FwdIdle

ThreadStep ==
    \/ thread_loop
    \/ connect_flrig
    \/ spawn_rigctlcom
    \/ accept_rigctlcom
    \/ proxy_select
    \/ proxy_recv_rig
    \/ proxy_recv_fl
    \/ except_handler

Next ==
    \/ ThreadStep
    \/ stop
    \/ rigctlcom_writes
    \/ flrig_writes
    \/ rigctlcom_exits
    \/ flrig_disconnects

Spec == Init /\ [][Next]_vars

\* the relay's thread is a running OS thread: it keeps taking its next step
FairSpec == Spec /\ WF_vars(ThreadStep)

(***************************************************************************)
(* The specification of the supervisor.                                    *)
(***************************************************************************)
SupNext ==
    \/ RigProxies_init
    \/ poll_wait
    \/ poll_stop_all
    \/ SvcStop
    \/ SvcDoRun

SupSpecInit == RelayInit /\ SupInit /\ CodecIdle /\ FwdIdle

SupSpec == SupSpecInit /\ [][SupNext]_vars

(***************************************************************************)
(* The specification of the decoder: one datagram, one call of parse.      *)
(***************************************************************************)
CodecNext == WSJPacket_parse

CodecSpecInit == RelayInit /\ SupIdle /\ CodecInit /\ FwdIdle

CodecSpec == CodecSpecInit /\ [][CodecNext]_vars

(***************************************************************************)
(* The specification of the forwarder: forward_cls.main() on either        *)
(* platform.                                                               *)
(***************************************************************************)
FwdNext ==
    \/ run_one_select
    \/ run_one_inbound
    \/ run_one_replies
    \/ main_loop
    \/ config_edited
    \/ reachability_changes

FwdSpecInit ==
    /\ RelayInit /\ CodecIdle /\ FwdInit
    /\ platform \in {"Linux", "Windows"}
    /\ rigs = <<>> /\ proxies = <<>> /\ sup_pc = "off"
    /\ event = FALSE /\ shutdown = "none"

FwdSpec == FwdSpecInit /\ [][FwdNext]_vars

(***************************************************************************)
(* Properties of one relay.                                                *)
(***************************************************************************)
\* every resource of the relay is gone: both socket handles and the Popen
\* handle are None, no child runs, no connection is left
TornDown ==
    /\ rigctlcom_sock = "None"
    /\ rigctlcom = "None"
    /\ flrig_sock = "None"
    /\ children = 0
    /\ brLink = "none"
    /\ ctlLink = "none"

\* C1: while the relay is in _proxy_loop with both peers connected, what each
\* peer has received, followed by what still waits in the relay's receive
\* buffer, is exactly what the other peer wrote: nothing lost, repeated or
\* reordered, also when send() takes only part of a chunk.
C1_BytesPreserved ==
    (pc \in RelayPcs /\ brLink = "up" /\ ctlLink = "up") =>
        /\ fl_rx \o rig_q = rig_tx
        /\ rig_rx \o fl_q = fl_tx

\* C2: when the relay is back at the loop test or at connect() after a
\* socket error raised in _proxy_loop, the bridge socket is closed, the child
\* is killed and the control socket is closed.
C2_ResetBeforeReconnect ==
    (pc \in {"loop", "connect"} /\ exc.kind = "sockerr"
                                /\ exc.at \in {"recv_rig", "recv_fl"}) => TornDown

C2_Witness ==
    /\ pc = "connect"
    /\ exc = [kind |-> "sockerr", at |-> "recv_fl"]
    /\ TornDown

\* C3: once a peer has closed its end while the relay is in _proxy_loop, the
\* relay leaves _proxy_loop.
C3_DisconnectEndsRelay ==
    (pc \in RelayPcs /\ (brLink = "eof" \/ ctlLink = "eof")) ~> (pc \notin RelayPcs)

\* C4: after a refused connect() the thread is still in its loop (it ends
\* only when running is false), no bridge child exists while it retries, and
\* whenever connect() has succeeded the spawn condition holds, so the bridge
\* is spawned next.
C4_RefusedIsRetried ==
    /\ (exc.kind = "refused" /\ pc \in {"except", "loop", "connect", "done"}) =>
            /\ rigctlcom = "None"
            /\ children = 0
            /\ (pc = "done" => ~running)
    /\ pc = "spawn" => (flrig_sock = "connected" /\ rigctlcom = "None")

\* a refusal was retried and the retry connected and spawned the bridge
C4_Witness ==
    /\ exc = [kind |-> "refused", at |-> "connect"]
    /\ pc = "accept"
    /\ running
    /\ rigctlcom = "alive"

\* C5: once stop() has been called while the relay is in _proxy_loop, the
\* thread exits.
C5_StopEndsThread ==
    (~running /\ pc \in RelayPcs) ~> (pc = "done")

\* C6: once stop() has taken effect (running is false and the thread has
\* left its loop), control socket, bridge socket and child are all absent.
C6_StopTearsDown ==
    (~running /\ pc = "done") =>
        (flrig_sock = "None" /\ rigctlcom_sock = "None" /\ rigctlcom = "None")

\* C7: after an unexpected exception raised in any step, the relay has gone
\* through _reset() by the time it is back at the loop test or at connect(),
\* and the thread has not ended unless running is false.
C7_UnexpectedIsReset ==
    (exc.kind = "other" /\ pc \in {"loop", "connect", "done"}) =>
        /\ TornDown
        /\ (pc = "done" => ~running)

C7_Witness ==
    /\ exc = [kind |-> "other", at |-> "select"]
    /\ pc = "connect"
    /\ running
    /\ TornDown

(***************************************************************************)
(* Properties of the supervisor.                                           *)
(***************************************************************************)
\* one started relay per (rig, proxy) pair of the configuration
OnePerPair ==
    /\ Len(proxies) = Len(Pairs(rigs))
    /\ \A k \in 1..Len(proxies) :
          /\ proxies[k].rig = Pairs(rigs)[k].rig
          /\ proxies[k].proxy = Pairs(rigs)[k].proxy
          /\ proxies[k].started

\* C8: once construction is over there is exactly one started relay per
\* (rig, proxy) pair, and when the supervisor has ended after an operator's
\* shutdown request, stop() was called on every one of them.
C8_StartedAndAllStopped ==
    /\ sup_pc \in {"wait", "stop_all", "exited"} => OnePerPair
    /\ (sup_pc = "exited" /\ shutdown = "operator") =>
           \A k \in 1..Len(proxies) : proxies[k].stopped /\ ~proxies[k].running

(***************************************************************************)
(* Properties of the decoder.                                              *)
(***************************************************************************)
\* C9: decoding a well-formed Heartbeat datagram gives a packet of type 0
\* whose ident, max_schema, version and revision are the encoded values.
C9_HeartbeatDecodes ==
    (decoded # <<>> /\ WellFormed(fields) /\ fields.type = WSJTX_HEARTBEAT) =>
        /\ decoded[1].kind = "packet"
        /\ decoded[1].type = WSJTX_HEARTBEAT
        /\ decoded[1].ident = fields.ident
        /\ decoded[1].hb = <<[version |-> fields.version,
                              revision |-> fields.revision,
                              max_schema |-> PyInt(fields.max_schema)]>>

\* the last length-prefixed string of the datagram of fields f (the
\* revision of a heartbeat, the identity of any other message) declares a
\* length that runs past the end of the datagram: its prefix is whole and
\* says more bytes than are left
Overlong(f) ==
    LET last == IF f.type = WSJTX_HEARTBEAT THEN f.revision ELSE f.ident IN
    /\ f.magic = MagicBytes /\ f.schema = 2
    /\ f.cut <= Len(encode(last))
    /\ f.over + f.cut > 0

\* C12: decoding a datagram in which a string's declared length runs past
\* the end of the buffer is a decode failure: parse returns no packet and
\* raises nothing.
C12_OverlongIsDecodeFailure ==
    (decoded # <<>> /\ Overlong(fields)) => decoded[1].kind = "None"

(***************************************************************************)
(* Properties of the forwarder.                                            *)
(***************************************************************************)
\* the datagram of each intact message
Wire == [f \in IntactFields |-> Datagram(f)]

\* the header of datagram d is complete and its magic is not 0xADBCCBDA or
\* its schema is not 2
BadHeader(d) ==
    /\ Len(d) >= 12
    /\ (Slice(d, 0, 4) # MagicBytes \/ U32(Slice(d, 4, 8)) # 2)

\* C10: for an inbound datagram with a wrong magic or a schema other than
\* 2, parse gives no packet, nothing is sent through any dedicated socket
\* to a destination, and the discovery table is as the cycle found it.
C10_BadHeaderNotForwarded ==
    (received # <<>> /\ BadHeader(received[1].data)) =>
        /\ parse(received[1].data).kind # "packet"
        /\ \A k \in 1..Len(sent) : sent[k].via = inbound
        /\ sources = table0

\* a datagram with a wrong magic arrived while its identity was in the
\* table and a destination was configured and reachable
C10_Witness ==
    /\ received # <<>>
    /\ BadHeader(received[1].data)
    /\ Slice(received[1].data, 0, 4) = BadMagicBytes
    /\ Lookup(sources, StrFT101) > 0
    /\ config = <<"D1", "D2">>
    /\ unreachable = {}
    /\ sent = <<>>

\* C11: a datagram with a wrong magic or schema, read on the inbound
\* socket or on a dedicated socket, is only dropped: no exception leaves
\* run_one and the main loop goes on to the next cycle.
C11_DecodeErrorOnlyDrops ==
    ((received # <<>> /\ BadHeader(received[1].data))
        \/ \E k \in 1..Len(replies) :
              replies[k].got.err = "none" /\ BadHeader(replies[k].got.data))
      => (escaped = "none" /\ fpc # "crashed")

\* C13: a heartbeat of an identity the table does not hold, from address
\* A, appends one entry for it with return address A; a datagram of any
\* type of an identity the table holds, from address B, sets that entry's
\* return address to B and changes nothing else; no two entries share an
\* identity.
C13_OneEntryPerIdentity ==
    /\ \A i, j \in 1..Len(sources) :
          sources[i].ident = sources[j].ident => i = j
    /\ received # <<>> =>
          \A f \in IntactFields :
             received[1].data = Wire[f] =>
                IF Lookup(table0, f.ident) > 0
                THEN sources = [table0 EXCEPT ![Lookup(table0, f.ident)].dest =
                                                  received[1].addr]
                ELSE f.type = WSJTX_HEARTBEAT =>
                        /\ Len(sources) = Len(table0) + 1
                        /\ SubSeq(sources, 1, Len(table0)) = table0
                        /\ sources[Len(sources)].ident = f.ident
                        /\ sources[Len(sources)].dest = received[1].addr

\* the sendto calls of this cycle made on dedicated sockets
ToConsumers == SelectSeq(sent, LAMBDA m : m.via # inbound)

\* the configured destinations to which sendto does not fail, in order
Reachable == SelectSeq(config, LAMBDA d : d \notin unreachable)

\* C14: an inbound datagram of an identity that has an entry is sent, as
\* received and on that entry's dedicated socket, to every configured
\* destination; a destination to which the send fails does not keep the
\* later ones from getting it.
C14_FanOutToEveryDestination ==
    received # <<>> =>
       \A f \in IntactFields :
          (received[1].data = Wire[f] /\ Lookup(sources, f.ident) > 0) =>
             /\ Len(ToConsumers) = Len(Reachable)
             /\ \A k \in 1..Len(Reachable) :
                   ToConsumers[k] =
                      [via |-> sources[Lookup(sources, f.ident)].proxysock,
                       data |-> received[1].data,
                       to |-> Reachable[k]]

\* the identity a status message d bears
IdentOf(d) == CHOOSE id \in {StrFT101, StrB} : d = Wire[Message(1, id)]

\* the replies read in this cycle that bear an identity the table holds
Routable ==
    SelectSeq(replies, LAMBDA rp :
        /\ rp.got.err = "none"
        /\ \E id \in {StrFT101, StrB} :
              rp.got.data = Wire[Message(1, id)] /\ Lookup(sources, id) > 0)

\* the sendto calls of this cycle made on the inbound socket
ToSources == SelectSeq(sent, LAMBDA m : m.via = inbound)

\* C15: a reply read on a dedicated socket goes, as received, to the
\* return address now recorded for the identity decoded from the reply,
\* whichever entry the socket belongs to.
C15_ReplyRoutedByIdentity ==
    /\ Len(ToSources) = Len(Routable)
    /\ \A k \in 1..Len(Routable) :
          ToSources[k] =
             [via |-> inbound, data |-> Routable[k].got.data,
              to |-> sources[Lookup(sources, IdentOf(Routable[k].got.data))].dest]

\* a reply bearing "FT-101" was read on the dedicated socket of "B" and
\* sent to the return address of "FT-101", which is not that of "B"
C15_Witness ==
    \E k \in 1..Len(replies) :
       /\ replies[k].got = [err |-> "none", data |-> Datagram(Message(1, StrFT101))]
       /\ Lookup(sources, StrB) > 0
       /\ replies[k].sock = sources[Lookup(sources, StrB)].proxysock
       /\ Lookup(sources, StrFT101) > 0
       /\ sources[Lookup(sources, StrFT101)].dest = "A2"
       /\ sources[Lookup(sources, StrB)].dest = "A1"
       /\ \E m \in 1..Len(sent) :
             sent[m] = [via |-> inbound, data |-> replies[k].got.data, to |-> "A2"]

\* the destinations of the file to which sendto does not fail, in order
ReachableInFile == SelectSeq(file.destinations, LAMBDA d : d \notin unreachable)

\* C16: when the file's modification time is later than the last load,
\* the cycle that forwards a datagram forwards it to the file's
\* destination list; and a reload, wherever it happens, takes the file's
\* list and leaves every entry of the table in place with its identity and
\* dedicated socket, its return address changing only to the sender of the
\* datagram received from that identity.
C16_ReloadedListIsUsed ==
    [][/\ (fpc = "inbound" /\ fpc' = "replies" /\ received' # <<>>
              /\ file.mtime > last_config) =>
             /\ config' = file.destinations
             /\ last_config' = file.mtime
             /\ Len(sent') \in {0, Len(ReachableInFile)}
             /\ \A k \in 1..Len(sent') : sent'[k].to = ReachableInFile[k]
       /\ (config' # config \/ last_config' # last_config) =>
             /\ config' = file.destinations
             /\ last_config' = file.mtime
             /\ Len(sources') >= Len(sources)
             /\ \A k \in 1..Len(sources) :
                   /\ sources'[k].ident = sources[k].ident
                   /\ sources'[k].proxysock = sources[k].proxysock
                   /\ sources'[k].dest # sources[k].dest =>
                         /\ received' # <<>>
                         /\ sources'[k].dest = received'[1].addr
                         /\ parse(received'[1].data).ident = sources[k].ident
      ]_vars

\* the file was rewritten with a later modification time and another
\* list, D1 and D2, and the cycle that found the old list loaded forwarded
\* a message of "FT-101" to D1 and D2
C16_Witness ==
    /\ received # <<>>
    /\ received[1].data = Datagram(Message(1, StrFT101))
    /\ Lookup(table0, StrFT101) > 0
    /\ config0 # <<>>
    /\ config0[1] = <<"D1">>
    /\ config0[2] < file.mtime
    /\ file.destinations = <<"D1", "D2">>
    /\ config = <<"D1", "D2">>
    /\ last_config = file.mtime
    /\ Len(ToConsumers) = 2
    /\ ToConsumers[2].to = "D2"
    /\ sources = table0

\* C19: an inbound message that is not a heartbeat and whose identity
\* has no entry is dropped: the table is as the cycle found it, nothing
\* is sent on a dedicated socket, and no exception leaves the inbound
\* part of run_one.
C19_UnknownNonHeartbeatDropped ==
    received # <<>> =>
       \A f \in IntactFields :
          (/\ received[1].data = Wire[f]
           /\ f.type # WSJTX_HEARTBEAT
           /\ Lookup(table0, f.ident) = 0) =>
             /\ sources = table0
             /\ ToConsumers = <<>>
             /\ replies = <<>> => (fpc # "crashed" /\ escaped = "none")

\* a status message of "B", which has no entry, arrived while "FT-101"
\* had one and D1 and D2 were configured and reachable, and run_one
\* returned
C19_Witness ==
    /\ fpc = "returned"
    /\ received # <<>>
    /\ received[1].data = Datagram(Message(1, StrB))
    /\ Len(table0) = 1
    /\ table0[1].ident = StrFT101
    /\ sources = table0
    /\ config = <<"D1", "D2">>
    /\ unreachable = {}
    /\ sent = <<>>

\* C20: the table only grows. A step adds at most one entry, at the end,
\* and only on receiving a datagram of type 0 whose identity the table
\* did not hold; every entry stays where it is with its identity and its
\* dedicated socket; its return address changes only to the sender of the
\* datagram just received.
C20_TableOnlyGrows ==
    [][/\ Len(sources') \in {Len(sources), Len(sources) + 1}
       /\ \A k \in 1..Len(sources) :
             /\ sources'[k].ident = sources[k].ident
             /\ sources'[k].proxysock = sources[k].proxysock
             /\ sources'[k].dest # sources[k].dest =>
                   (received' # <<>> /\ sources'[k].dest = received'[1].addr)
       /\ Len(sources') = Len(sources) + 1 =>
             /\ received' # <<>>
             /\ U32(Slice(received'[1].data, 8, 12)) = WSJTX_HEARTBEAT
             /\ Lookup(sources, sources'[Len(sources')].ident) = 0
             /\ sources'[Len(sources')].dest = received'[1].addr
      ]_vars

\* "B" was entered by its heartbeat next to "FT-101", whose entry, made
\* from A1, has meanwhile the return address A2 and still its socket
C20_Witness ==
    /\ received # <<>>
    /\ received[1].data = Datagram(Message(WSJTX_HEARTBEAT, StrB))
    /\ Len(table0) = 1
    /\ Len(sources) = 2
    /\ sources[1] = [ident |-> StrFT101, dest |-> "A2", proxysock |-> 1]
    /\ sources[1] = table0[1]
    /\ sources[2].ident = StrB
    /\ sources[2].proxysock = 2

(***************************************************************************)
(* Further properties of one relay.                                        *)
(***************************************************************************)
\* C17: the bridge child is launched once on the way from no connection to
\* relaying, and only with the control connection made: no more than one
\* launch since the last _reset, no more than one child alive, a launched
\* child always next to a connected control socket, and exactly one launch
\* behind the relay whenever it is in _proxy_loop.
C17_SpawnedOncePerSession ==
    /\ launched <= 1
    /\ children <= 1
    /\ rigctlcom # "None" => flrig_sock = "connected"
    /\ pc = "accept" => launched = 1
    /\ pc \in RelayPcs => launched = 1

\* the relay is in _proxy_loop for the second time: the first session ended
\* in a socket error and _reset, then connect() succeeded again and one
\* child was launched again
C17_Witness ==
    /\ pc = "select"
    /\ exc.kind = "sockerr"
    /\ exc.at \in RelayPcs
    /\ launched = 1
    /\ children = 1
    /\ rigctlcom = "alive"
    /\ flrig_sock = "connected"
    /\ rigctlcom_sock = "connected"

\* the Popen handle is present exactly when the bridge socket is
HandleIffSocket == (rigctlcom # "None") <=> (rigctlcom_sock # "None")

\* in _proxy_loop the control socket and the bridge socket are both present
RelayingHasBoth ==
    pc \in RelayPcs => (flrig_sock # "None" /\ rigctlcom_sock # "None")

\* the thread is inside _spawn_rigctlcom after Popen, waiting in accept(),
\* or on its way from there to _reset
InSpawn == pc = "accept" \/ (pc = "except" /\ exc.at = "accept")

\* C18 as stated: in every reachable state the child's handle is present
\* iff the bridge socket is, and in _proxy_loop both sockets are present.
C18_HandleIffSocket == HandleIffSocket /\ RelayingHasBoth

\* C18 as amended: the same, except while _spawn_rigctlcom has launched the
\* child and its accept() has not returned the bridge socket.
C18_HandleIffSocketOutsideSpawn ==
    /\ ~InSpawn => HandleIffSocket
    /\ RelayingHasBoth

\* the relay is in _proxy_loop again, with child and both sockets, after an
\* accept() that failed and the _reset that followed
C18_Witness ==
    /\ pc = "recv_rig"
    /\ exc = [kind |-> "sockerr", at |-> "accept"]
    /\ rigctlcom = "alive"
    /\ rigctlcom_sock = "connected"
    /\ flrig_sock = "connected"

=============================================================================
